---- MODULE Spec2Model ----
(***************************************************************************)
(* Model of src/Video_Frame_Redundancy_Detection.py: the similarity metric *)
(* is_similar_arr and the scanner find_redundant_ranges.                    *)
(*                                                                         *)
(* Python indices are 0-based; TLA+ sequences are 1-based, so frame i of    *)
(* the program is int_frames[i + 1] here.  fps is a float in the program:   *)
(* it is held in hundredths (fps = 2997 is 29.97), and int(fps) truncates.  *)
(* SIMILARITY_RATIO is a float in the program: it is held in hundredths     *)
(* (70 is 0.70) and ratio >= SIMILARITY_RATIO is compared exactly.          *)
(***************************************************************************)
EXTENDS Integers, Sequences, FiniteSets, TLC

VARIABLES
    frame,                \* the decoded frame given to frame_to_24int: its height H,
                          \* width W and rows px of pixels <<red, green, blue>>
    int_frames,           \* the list of packed frames (each a sequence of uint32)
    fps,                  \* frames per second, in hundredths
    THRESHOLD_ZERO_BITS,  \* module global, line 10
    SIMILARITY_RATIO,     \* module global, line 11, in hundredths
    byteorder,            \* the platform's byte order, seen by xor.view(np.uint8)
    pc,                   \* position in find_redundant_ranges / is_similar_arr
    N,                    \* line 53
    redundant,            \* line 54
    base,                 \* line 55
    offs,                 \* line 58
    step,                 \* line 58
    candidates,           \* the candidates of line 67 not yet compared
    result,               \* the returned list (meaningful when pc = "done")
    exc,                  \* the exception that ended the call, or "none"
    last,                 \* what the last call of is_similar_arr did
    iters,                \* history: outer iterations started
    bases,                \* history: values of base at the start of an outer iteration
    ncmp,                 \* history: calls of is_similar_arr made by the scan
    matches,              \* history: the pairs <<base, cand>> that matched
    misses,               \* history: the pairs <<base, cand>> compared and found not similar
    nfallback,            \* history: executions of the for-else branch
    mismatched            \* history: pairs <<base, cand>> compared with unequal lengths

vars == <<frame, int_frames, fps, THRESHOLD_ZERO_BITS, SIMILARITY_RATIO, byteorder, pc, N,
          redundant, base, offs, step, candidates, result, exc, last, iters, bases,
          ncmp, matches, misses, nfallback, mismatched>>

(***************************************************************************)
(* Bounds of the model.                                                    *)
(***************************************************************************)
MaxN == 26          \* longest frame sequence of the periodic inputs
MaxSmallN == 3      \* longest frame sequence of the exhaustive inputs
MaxP == 3           \* longest packed frame given to is_similar_arr alone
MaxFps == 3300      \* largest fps (in hundredths) given to the ladder alone
MaxH == 2           \* largest height of a frame given to frame_to_24int
MaxW == 2           \* largest width of a frame given to frame_to_24int

(***************************************************************************)
(* Program constants.                                                      *)
(***************************************************************************)
DEFAULT_THRESHOLD_ZERO_BITS == 17
DEFAULT_SIMILARITY_RATIO == 70
ROW_BITS == 24
WORD_BYTES == 4
FALLBACK_STRIDE == 10

Min(x, y) == IF x <= y THEN x ELSE y

RECURSIVE Pow2(_)
Pow2(k) == IF k = 0 THEN 1 ELSE 2 * Pow2(k - 1)

(***************************************************************************)
(* int(fps): truncation toward zero of a value held in hundredths.          *)
(***************************************************************************)
int(f) == IF f >= 0 THEN f \div 100 ELSE -((-f) \div 100)

(***************************************************************************)
(* frame_to_24int, lines 29-34.                                            *)
(***************************************************************************)
\* x << k on an unsigned integer type of w bits: the bits shifted past bit w-1 are
\* lost, that is (x * 2^k) mod 2^w
lshift(x, k, w) == IF k >= w THEN 0 ELSE (x % Pow2(w - k)) * Pow2(k)

\* np.bitwise_or on two scalars
RECURSIVE or_scalar(_, _)
or_scalar(x, y) ==
    IF x = 0 /\ y = 0 THEN 0
    ELSE (IF (x % 2) + (y % 2) > 0 THEN 1 ELSE 0) + 2 * or_scalar(x \div 2, y \div 2)

\* the shifts done on the uint8 channels, without astype(np.uint32)
pack_pixel_uint8(p) == or_scalar(or_scalar(lshift(p[1], 16, 8), lshift(p[2], 8, 8)), p[3])

\* lines 31-34, for one pixel: the channels as uint32, (r << 16) | (g << 8) | b
pack_pixel(p) == or_scalar(or_scalar(lshift(p[1], 16, 32), lshift(p[2], 8, 32)), p[3])

\* lines 31-34: the H x W array of packed pixels, then .ravel() (row-major)
frame_to_24int(f) ==
    [k \in 1..(f.H * f.W) |->
        pack_pixel(f.px[((k - 1) \div f.W) + 1][((k - 1) % f.W) + 1])]

NoFrame == [H |-> 0, W |-> 0, px |-> <<>>]

(***************************************************************************)
(* is_similar_arr, lines 36-44.                                            *)
(***************************************************************************)
\* an array with its elements computed once (the arrays of numpy are values)
Array(f, n) == SubSeq(f, 1, n)

\* np.bitwise_xor on two scalars
RECURSIVE xor_scalar(_, _)
xor_scalar(x, y) ==
    IF x = 0 /\ y = 0 THEN 0
    ELSE (((x % 2) + (y % 2)) % 2) + 2 * xor_scalar(x \div 2, y \div 2)

\* numpy broadcasting of two 1-d shapes: the common length, or -1 (ValueError)
broadcast_len(la, lb) ==
    IF la = lb THEN la
    ELSE IF la = 1 THEN lb
    ELSE IF lb = 1 THEN la
    ELSE -1

\* np.bitwise_xor(a, b) for shapes that broadcast
bitwise_xor(a, b) ==
    Array([i \in 1..broadcast_len(Len(a), Len(b)) |->
              xor_scalar(IF Len(a) = 1 THEN a[1] ELSE a[i],
                         IF Len(b) = 1 THEN b[1] ELSE b[i])],
          broadcast_len(Len(a), Len(b)))

\* xor.view(np.uint8): the bytes of the uint32 elements in memory order
view_uint8(x) ==
    Array([k \in 1..(WORD_BYTES * Len(x)) |->
              LET v == x[((k - 1) \div WORD_BYTES) + 1]
                  j == (k - 1) % WORD_BYTES
                  e == IF byteorder = "little" THEN j ELSE (WORD_BYTES - 1) - j
              IN  (v \div Pow2(8 * e)) % 256],
          WORD_BYTES * Len(x))

\* np.unpackbits: the bits of each byte, most significant first
unpackbits(bytes) ==
    Array([k \in 1..(8 * Len(bytes)) |->
              (bytes[((k - 1) \div 8) + 1] \div Pow2(7 - ((k - 1) % 8))) % 2],
          8 * Len(bytes))

RECURSIVE SumBits(_, _, _)
SumBits(bits, lo, hi) == IF lo > hi THEN 0 ELSE bits[lo] + SumBits(bits, lo + 1, hi)

\* .reshape(-1, 24).sum(axis=1): one sum per run of 24 consecutive bits
row_sums(bits) ==
    Array([r \in 1..(Len(bits) \div ROW_BITS) |->
              SumBits(bits, ROW_BITS * (r - 1) + 1, ROW_BITS * r)],
          Len(bits) \div ROW_BITS)

matched_rows_at_most(ones, t) ==
    Cardinality({r \in 1..Len(ones) : ROW_BITS - ones[r] <= t})

\* lines 40-41: zeros = 24 - ones; np.count_nonzero(zeros >= t)
matched_rows(ones, t) ==
    Cardinality({r \in 1..Len(ones) : ROW_BITS - ones[r] >= t})

\* np.count_nonzero(zeros >= THRESHOLD_ZERO_BITS)
count_matched(ones) == matched_rows(ones, THRESHOLD_ZERO_BITS)

\* lines 42, 44: matched / zeros.size >= ratio, the ratio in hundredths
ratio_reached(matched, size, ratio) == matched * 100 >= ratio * size

Raised(e) == [exc |-> e, matched |-> 0, size |-> 0, ret |-> FALSE]

is_similar_arr(a, b) ==
    IF broadcast_len(Len(a), Len(b)) < 0
    THEN Raised("ValueError")                      \* line 38: shapes do not broadcast
    ELSE LET xor == bitwise_xor(a, b)
         IN  IF (8 * WORD_BYTES * Len(xor)) % ROW_BITS # 0
             THEN Raised("ValueError")             \* line 39: reshape(-1, 24)
             ELSE LET ones == row_sums(unpackbits(view_uint8(xor)))
                      matched == count_matched(ones)
                      size == Len(ones)
                  IN  IF size = 0
                      THEN Raised("ZeroDivisionError")   \* line 42
                      ELSE [exc |-> "none", matched |-> matched, size |-> size,
                            ret |-> ratio_reached(matched, size, SIMILARITY_RATIO)]

NoCall == [exc |-> "nocall", matched |-> 0, size |-> 0, ret |-> FALSE]

(***************************************************************************)
(* find_redundant_ranges, lines 46-85.                                     *)
(***************************************************************************)
ladder_tail_always(o) == Append(o, 1)

\* lines 62-63
ladder_tail(o) == IF o[Len(o)] # 1 THEN Append(o, 1) ELSE o

loop_cond_to_n(b, n) == b < n

\* line 65: the condition of the outer loop
loop_cond(b, n) == b < n - 1

RECURSIVE build_candidates_ascending(_, _, _)
build_candidates_ascending(b, o, n) ==
    IF o = <<>> THEN <<>>
    ELSE build_candidates_ascending(b, Tail(o), n)
         \o (IF b + Head(o) < n THEN <<b + Head(o)>> ELSE <<>>)

RECURSIVE build_candidates_short(_, _, _)
build_candidates_short(b, o, n) ==
    IF o = <<>> THEN <<>>
    ELSE (IF b + Head(o) < n - 1 THEN <<b + Head(o)>> ELSE <<>>)
         \o build_candidates_short(b, Tail(o), n)

\* line 67
RECURSIVE build_candidates(_, _, _)
build_candidates(b, o, n) ==
    IF o = <<>> THEN <<>>
    ELSE (IF b + Head(o) < n THEN <<b + Head(o)>> ELSE <<>>)
         \o build_candidates(b, Tail(o), n)

marked_from_base(b, c) == b..c

marked_before_cand(b, c) == (b + 1)..(c - 1)

\* line 74: range(base+1, cand+1)
marked(b, c) == (b + 1)..c

next_base_same(c) == c

\* line 76
next_base(c) == c + 1

new_base_unclamped(b, n) == b + FALLBACK_STRIDE

new_base_clamp_n(b, n) == Min(b + FALLBACK_STRIDE, n)

new_base_clamp_low(b, n) == Min(b + FALLBACK_STRIDE, n - 2)

new_base_ladder_stride(b, n) == Min(b + Head(offs), n - 1)

\* line 81
new_base(b, n) == Min(b + FALLBACK_STRIDE, n - 1)

\* line 85: sorted(redundant)
RECURSIVE sorted(_)
sorted(S) ==
    IF S = {} THEN <<>>
    ELSE LET m == CHOOSE x \in S : \A y \in S : x <= y
         IN  <<m>> \o sorted(S \ {m})

Frame(i) == int_frames[i + 1]

(***************************************************************************)
(* Inputs.                                                                 *)
(***************************************************************************)
\* K0 and K0b are similar, K0b and K0c are similar, K0 and K0c are not (at the
\* default configuration, in both byte orders); K0, K1, K2 are pairwise not similar
K0  == <<0, 0, 0>>
K0b == <<65280, 0, 0>>
K0c == <<65280, 0, 65280>>
K1  == <<16777215, 16777215, 16777215>>
K2  == <<986895, 986895, 986895>>
S1  == <<0>>
S2  == <<0, 0>>

SmallKinds == {K0, K0b, K0c, K1, S1, S2}
Patterns == {<<K0>>, <<K0, K1>>, <<K0, K1, K2>>, <<K0, K0b, K1>>, <<K0, K0b, K0c>>,
             <<K0, K1, K0b, K2>>}
FpsValues == {0, 100, 250, 3000}
Configs == {<<17, 70>>, <<25, 70>>, <<17, 110>>, <<24, 100>>}
ByteOrders == {"little", "big"}
Pixels == {0, 16777215, 986895}

SeqsUpTo(S, n) == UNION {[1..k -> S] : k \in 0..n}

\* the state at line 58, for the frames fr and the frame rate f
Entry(fr, f) ==
    /\ int_frames = fr
    /\ fps = f
    /\ N = Len(fr)
    /\ redundant = {}
    /\ base = 0
    /\ offs = <<>>
    /\ step = int(f)
    /\ candidates = <<>>
    /\ result = <<>>
    /\ exc = "none"
    /\ last = NoCall
    /\ iters = 0
    /\ bases = {}
    /\ ncmp = 0
    /\ matches = {}
    /\ misses = {}
    /\ nfallback = 0
    /\ mismatched = {}

InitSmall ==
    /\ frame = NoFrame
    /\ pc = "ladder"
    /\ \E n \in 0..MaxSmallN : \E fr \in [1..n -> SmallKinds] : \E f \in FpsValues :
          Entry(fr, f)
    /\ \E c \in Configs : THRESHOLD_ZERO_BITS = c[1] /\ SIMILARITY_RATIO = c[2]
    /\ byteorder \in ByteOrders

InitPeriodic ==
    /\ frame = NoFrame
    /\ pc = "ladder"
    /\ \E n \in 0..MaxN : \E p \in Patterns : \E f \in FpsValues :
          Entry([i \in 1..n |-> p[((i - 1) % Len(p)) + 1]], f)
    /\ THRESHOLD_ZERO_BITS = DEFAULT_THRESHOLD_ZERO_BITS
    /\ SIMILARITY_RATIO = DEFAULT_SIMILARITY_RATIO
    /\ byteorder \in ByteOrders

Init == InitSmall \/ InitPeriodic

(***************************************************************************)
(* Actions of find_redundant_ranges.                                       *)
(***************************************************************************)
hist == <<iters, bases, ncmp, matches, misses, nfallback, mismatched>>
inputs == <<frame, int_frames, fps, THRESHOLD_ZERO_BITS, SIMILARITY_RATIO, byteorder, N>>

\* lines 59-61: one turn of the ladder loop
LadderLoop ==
    /\ pc = "ladder"
    /\ step >= 1
    /\ offs' = Append(offs, step)
    /\ step' = step \div 2
    /\ UNCHANGED <<inputs, hist, pc, redundant, base, candidates, result, exc, last>>

\* lines 59, 62-63: the ladder loop ends; offs[-1] of an empty list raises
LadderEnd ==
    /\ pc = "ladder"
    /\ step < 1
    /\ IF offs = <<>>
       THEN /\ exc' = "IndexError"
            /\ pc' = "raised"
            /\ offs' = offs
       ELSE /\ offs' = ladder_tail(offs)
            /\ pc' = "while"
            /\ exc' = exc
    /\ UNCHANGED <<inputs, hist, step, redundant, base, candidates, result, last>>

\* lines 65-68: the loop condition holds, the candidates are built
WhileEnter ==
    /\ pc = "while"
    /\ loop_cond(base, N)
    /\ candidates' = build_candidates(base, offs, N)
    /\ iters' = iters + 1
    /\ bases' = bases \cup {base}
    /\ pc' = "for"
    /\ UNCHANGED <<inputs, redundant, base, offs, step, result, exc, last,
                   ncmp, matches, misses, nfallback, mismatched>>

\* lines 65, 85: the loop condition fails, the sorted list is returned
Return ==
    /\ pc = "while"
    /\ ~loop_cond(base, N)
    /\ result' = sorted(redundant)
    /\ pc' = "done"
    /\ UNCHANGED <<inputs, hist, redundant, base, offs, step, candidates, exc, last>>

\* lines 70-79: one candidate is compared with the base
Compare ==
    /\ pc = "for"
    /\ candidates # <<>>
    /\ LET cand == Head(candidates)
           r == is_similar_arr(Frame(base), Frame(cand))
       IN  /\ last' = r
           /\ ncmp' = ncmp + 1
           /\ mismatched' = IF Len(Frame(base)) # Len(Frame(cand))
                            THEN mismatched \cup {<<base, cand>>} ELSE mismatched
           /\ IF r.exc # "none"
              THEN /\ exc' = r.exc
                   /\ pc' = "raised"
                   /\ UNCHANGED <<redundant, base, candidates, matches, misses>>
              ELSE IF r.ret
              THEN /\ redundant' = redundant \cup marked(base, cand)
                   /\ base' = next_base(cand)
                   /\ matches' = matches \cup {<<base, cand>>}
                   /\ pc' = "while"
                   /\ UNCHANGED <<candidates, misses, exc>>
              ELSE /\ candidates' = Tail(candidates)
                   /\ misses' = misses \cup {<<base, cand>>}
                   /\ UNCHANGED <<redundant, base, matches, pc, exc>>
    /\ UNCHANGED <<inputs, offs, step, result, iters, bases, nfallback>>

\* lines 80-83: no candidate matched
ForElse ==
    /\ pc = "for"
    /\ candidates = <<>>
    /\ base' = new_base(base, N)
    /\ nfallback' = nfallback + 1
    /\ pc' = "while"
    /\ UNCHANGED <<inputs, redundant, offs, step, candidates, result, exc, last,
                   iters, bases, ncmp, matches, misses, mismatched>>

Next == LadderLoop \/ LadderEnd \/ WhileEnter \/ Return \/ Compare \/ ForElse

Spec == Init /\ [][Next]_vars

(***************************************************************************)
(* The ladder alone, lines 57-63, over every fps up to MaxFps.              *)
(***************************************************************************)
InitLadder ==
    /\ frame = NoFrame
    /\ pc = "ladder"
    /\ \E f \in 0..MaxFps : Entry(<<>>, f)
    /\ THRESHOLD_ZERO_BITS = DEFAULT_THRESHOLD_ZERO_BITS
    /\ SIMILARITY_RATIO = DEFAULT_SIMILARITY_RATIO
    /\ byteorder = "little"

NextLadder == LadderLoop \/ LadderEnd

SpecLadder == InitLadder /\ [][NextLadder]_vars

(***************************************************************************)
(* is_similar_arr alone, lines 36-44, over every pair of packed frames of   *)
(* at most MaxP pixels.                                                     *)
(***************************************************************************)
SimConfigs == {<<17, 70>>, <<0, 70>>, <<24, 100>>, <<17, 0>>, <<25, 70>>, <<17, 110>>}

InitSim ==
    /\ frame = NoFrame
    /\ pc = "call"
    /\ \E a \in SeqsUpTo(Pixels, MaxP) : \E b \in SeqsUpTo(Pixels, MaxP) :
          Entry(<<a, b>>, 100)
    /\ \E c \in SimConfigs : THRESHOLD_ZERO_BITS = c[1] /\ SIMILARITY_RATIO = c[2]
    /\ byteorder \in ByteOrders

\* one call is_similar_arr(int_frames[0], int_frames[1])
SimCall ==
    /\ pc = "call"
    /\ LET r == is_similar_arr(Frame(0), Frame(1))
       IN  /\ last' = r
           /\ exc' = r.exc
           /\ pc' = IF r.exc = "none" THEN "returned" ELSE "raised"
    /\ UNCHANGED <<inputs, hist, redundant, base, offs, step, candidates, result>>

NextSim == SimCall

SpecSim == InitSim /\ [][NextSim]_vars

(***************************************************************************)
(* Vocabulary of the claims.                                               *)
(***************************************************************************)
Range(q) == {q[i] : i \in 1..Len(q)}

Terminated == pc \in {"done", "raised"}

\* an outer iteration ends normally: by a match (line 76) or by the for-else (line 83)
IterationEnds == pc = "for" /\ pc' = "while"

StrictlyAscending(q) == \A i \in 1..(Len(q) - 1) : q[i] < q[i + 1]

StrictlyDecreasing(q) == \A i \in 1..(Len(q) - 1) : q[i] > q[i + 1]

UniformFrames ==
    \A i \in 1..Len(int_frames) : \A j \in 1..Len(int_frames) :
        Len(int_frames[i]) = Len(int_frames[j])

ConfigValid == THRESHOLD_ZERO_BITS \in 0..24 /\ SIMILARITY_RATIO \in 0..100

\* the largest ladder offset that fits after base b
LargestFit(b) ==
    CHOOSE o \in Range(offs) :
        /\ b + o < N
        /\ \A o2 \in Range(offs) : b + o2 < N => o2 <= o

\* the metric as specified: one count per pixel, over the low 24 bits of the xor
RECURSIVE popcount(_)
popcount(x) == IF x = 0 THEN 0 ELSE (x % 2) + popcount(x \div 2)

PixelMatched(x, y) ==
    24 - popcount(xor_scalar(x, y) % Pow2(24)) >= THRESHOLD_ZERO_BITS

matchedCount(a, b) == Cardinality({i \in 1..Len(a) : PixelMatched(a[i], b[i])})

(***************************************************************************)
(* C1: the scan terminates, it starts at most N outer iterations, and every *)
(* outer iteration that ends (by a match or by the fallback) leaves base at *)
(* least 1 larger than it was.  Termination is stated with a variant: a     *)
(* natural number that every step of the program strictly decreases, so no  *)
(* run has more steps than the variant of its first state.                  *)
(***************************************************************************)
Variant ==
    CASE pc = "ladder" ->
            (N + 2) * (Len(offs) + (IF step > 0 THEN step ELSE 0) + 4)
            + (IF step > 0 THEN step ELSE 0) + 1
      [] pc = "while" -> (N + 1 - base) * (Len(offs) + 2)
      [] pc = "for" -> (N - base) * (Len(offs) + 2) + 1 + Len(candidates)
      [] OTHER -> 0

C1_Termination ==
    [][/\ iters' <= N
       /\ (IterationEnds => base' >= base + 1)
       /\ Variant' >= 0
       /\ Variant' < Variant]_vars

C1_Witness ==
    /\ pc = "done"
    /\ int(fps) >= 1
    /\ iters >= 3
    /\ matches # {}
    /\ nfallback >= 1

(***************************************************************************)
(* C2: the returned list is strictly ascending (so without duplicates) and  *)
(* each of its indices lies in 1..N-1; index 0 is never reported.           *)
(***************************************************************************)
C2_ResultSortedInRange ==
    pc = "done" =>
        /\ StrictlyAscending(result)
        /\ \A i \in 1..Len(result) : result[i] \in 1..(N - 1)

C2_Witness ==
    /\ pc = "done"
    /\ Len(result) >= 3
    /\ \E i \in 1..(Len(result) - 1) : result[i + 1] > result[i] + 1

(***************************************************************************)
(* C3: no index that was the base at the start of an outer iteration is in  *)
(* redundant (checked in every state, so also for an index that becomes a   *)
(* base after indices were inserted), and every index a step inserts is     *)
(* strictly greater than the base of that step.                             *)
(***************************************************************************)
C3_BaseNeverRedundant ==
    [][/\ bases' \cap redundant' = {}
       /\ \A i \in redundant' \ redundant : i > base]_vars

C3_Witness ==
    /\ pc = "for"
    /\ Cardinality(bases) >= 2
    /\ redundant # {}
    /\ base > 0

(***************************************************************************)
(* C4: for packed frames a and b of equal length P >= 1, is_similar_arr     *)
(* returns true exactly when matchedCount / P >= SIMILARITY_RATIO, with one *)
(* count per pixel and the pixel count as the denominator.                  *)
(***************************************************************************)
C4_PerPixelRatio ==
    (pc \in {"returned", "raised"} /\ Len(Frame(0)) = Len(Frame(1)) /\ Len(Frame(0)) >= 1) =>
        /\ last.exc = "none"
        /\ last.ret = (matchedCount(Frame(0), Frame(1)) * 100 >= SIMILARITY_RATIO * Len(Frame(0)))

(***************************************************************************)
(* C5: is_similar_arr(p, p) returns true, whatever the length of p, when    *)
(* the threshold is at most 24 and the ratio at most 1.0.  (Stated for p    *)
(* of at least one pixel.)                                                  *)
(***************************************************************************)
C5_SelfSimilar ==
    (/\ pc \in {"returned", "raised"}
     /\ Frame(0) = Frame(1)
     /\ Len(Frame(0)) >= 1
     /\ THRESHOLD_ZERO_BITS <= 24
     /\ SIMILARITY_RATIO <= 100) =>
        (last.exc = "none" /\ last.ret)

(***************************************************************************)
(* C6: with a threshold outside 0..24 or a ratio outside 0..1 the scan      *)
(* makes no comparison and returns no result.  (Stated for scans of at      *)
(* least two frames of three pixels each and int(fps) >= 1, where a scan    *)
(* has a pair to compare.)                                                  *)
(***************************************************************************)
C6_InvalidConfigRejected ==
    (/\ ~ConfigValid
     /\ N >= 2
     /\ \A i \in 1..N : Len(int_frames[i]) = 3
     /\ int(fps) >= 1) =>
        (ncmp = 0 /\ pc # "done")

(***************************************************************************)
(* C7: once the scan has compared two packed frames of unequal lengths, it  *)
(* has aborted with an error: nothing more is processed and nothing is      *)
(* returned.                                                                *)
(***************************************************************************)
C7_LengthMismatchFatal ==
    mismatched # {} => (pc = "raised" /\ exc # "none")

(***************************************************************************)
(* C8: for int(fps) >= 1 the finished ladder is strictly decreasing (so     *)
(* without duplicates), all its values are >= 1, it starts with int(fps)    *)
(* and ends in 1, which occurs once; fps = 30 gives <<30, 15, 7, 3, 1>>.    *)
(***************************************************************************)
C8_LadderShape ==
    (pc = "while" /\ int(fps) >= 1) =>
        /\ offs # <<>>
        /\ StrictlyDecreasing(offs)
        /\ \A i \in 1..Len(offs) : offs[i] >= 1
        /\ offs[1] = int(fps)
        /\ offs[Len(offs)] = 1
        /\ Cardinality({i \in 1..Len(offs) : offs[i] = 1}) = 1
        /\ (fps = 3000 => offs = <<30, 15, 7, 3, 1>>)

C8_Witness == pc = "while" /\ fps = 3000 /\ Len(offs) = 5

(***************************************************************************)
(* C9 as stated: when every compared pair was similar, the returned scan    *)
(* never took the fallback, every match was at the largest ladder offset    *)
(* that fits, and the result is every index of 1..N-1 that was not the base *)
(* of an outer iteration; N = 5, fps = 2 gives <<1, 2, 4>>, bases 0 and 3,  *)
(* final base 5.  (Stated for scans of frames of equal lengths.)            *)
(***************************************************************************)
C9_AllSimilarOriginal ==
    (pc = "done" /\ misses = {} /\ UniformFrames) =>
        /\ nfallback = 0
        /\ ncmp = iters
        /\ \A m \in matches : m[2] = m[1] + LargestFit(m[1])
        /\ Range(result) = (1..(N - 1)) \ bases
        /\ (N = 5 /\ int(fps) = 2 =>
               result = <<1, 2, 4>> /\ bases = {0, 3} /\ base = 5)

(***************************************************************************)
(* C9 amended: as above, but the result is every index of 1..N-1 that was   *)
(* neither the base of an outer iteration nor the final value of base (the  *)
(* last frame, N-1, stays out of the result when the last match ends at     *)
(* N-2).                                                                    *)
(***************************************************************************)
C9_AllSimilarAmended ==
    (pc = "done" /\ misses = {}) =>
        /\ nfallback = 0
        /\ ncmp = iters
        /\ \A m \in matches : m[2] = m[1] + LargestFit(m[1])
        /\ Range(result) = (1..(N - 1)) \ (bases \cup {base})
        /\ (N = 5 /\ int(fps) = 2 =>
               result = <<1, 2, 4>> /\ bases = {0, 3} /\ base = 5)

C9_Witness ==
    /\ pc = "done"
    /\ misses = {}
    /\ N = 5
    /\ int(fps) = 2
    /\ result = <<1, 2, 4>>

(***************************************************************************)
(* C10: when no compared pair was similar, every outer iteration of the     *)
(* returned scan took the fallback, the result is empty and, for N >= 2,    *)
(* there were exactly ceil((N-1)/10) outer iterations; N = 25 gives 3       *)
(* iterations, with bases 0, 10 and 20.                                     *)
(***************************************************************************)
C10_NoneSimilar ==
    (pc = "done" /\ matches = {}) =>
        /\ nfallback = iters
        /\ result = <<>>
        /\ (N >= 2 => iters = (N - 1 + 9) \div 10)
        /\ (N = 25 => iters = 3 /\ bases = {0, 10, 20})

C10_Witness ==
    /\ pc = "done"
    /\ matches = {}
    /\ misses # {}
    /\ N = 25
    /\ iters = 3

(***************************************************************************)
(* C11: with N <= 1 the scan starts no outer iteration, makes no comparison *)
(* and (for int(fps) >= 1, the frame rate the scanner is specified for)     *)
(* returns the empty list; in general an outer iteration is entered, and a  *)
(* candidate compared, only with base < N - 1.                              *)
(***************************************************************************)
C11_NoIterationWithoutSuccessor ==
    /\ N <= 1 =>
          /\ iters = 0
          /\ ncmp = 0
          /\ pc # "for"
          /\ (pc = "done" => result = <<>>)
          /\ (int(fps) >= 1 => pc # "raised")
    /\ \A b \in bases : b < N - 1
    /\ pc = "for" => base < N - 1
    /\ \A p \in matches \cup misses : p[1] + 1 < N

C11_Witness ==
    /\ pc = "done"
    /\ N = 1
    /\ int(fps) >= 1
    /\ iters = 0
    /\ result = <<>>

(***************************************************************************)
(* C13: for a pair on which is_similar_arr returns, a larger zero-bit       *)
(* threshold never gives a larger matched count, and a larger similarity    *)
(* ratio (the matched count being that of the configured threshold) never   *)
(* turns the verdict from not similar into similar.                         *)
(***************************************************************************)
OnesOfCall == row_sums(unpackbits(view_uint8(bitwise_xor(Frame(0), Frame(1)))))

C13_Monotone ==
    pc = "returned" =>
        LET ones == OnesOfCall
            counts == [t \in (0 - 1)..26 |-> matched_rows(ones, t)]
        IN  /\ last.matched = counts[THRESHOLD_ZERO_BITS]
            /\ \A t \in (0 - 1)..25 : counts[t + 1] <= counts[t]
            /\ \A r \in (0 - 1)..110 :
                  ratio_reached(last.matched, last.size, r + 1)
                      => ratio_reached(last.matched, last.size, r)
            /\ \A r \in SIMILARITY_RATIO..111 :
                  ratio_reached(last.matched, last.size, r) => last.ret

C13_Witness ==
    /\ pc = "returned"
    /\ Len(Frame(0)) = Len(Frame(1))
    /\ THRESHOLD_ZERO_BITS = 0
    /\ last.ret
    /\ matched_rows(OnesOfCall, 17) < last.matched
    /\ ~ratio_reached(matched_rows(OnesOfCall, 17), last.size, SIMILARITY_RATIO)

(***************************************************************************)
(* frame_to_24int alone, lines 29-34, over every frame of at most MaxH rows *)
(* and MaxW columns.                                                        *)
(***************************************************************************)
PixelsRGB == {<<0, 0, 0>>, <<255, 255, 255>>, <<10, 20, 30>>}

InitEnc ==
    /\ pc = "encode"
    /\ \E h \in 0..MaxH : \E w \in 0..MaxW : \E px \in [1..h -> [1..w -> PixelsRGB]] :
          frame = [H |-> h, W |-> w, px |-> px]
    /\ Entry(<<>>, 100)
    /\ THRESHOLD_ZERO_BITS = DEFAULT_THRESHOLD_ZERO_BITS
    /\ SIMILARITY_RATIO = DEFAULT_SIMILARITY_RATIO
    /\ byteorder \in ByteOrders

\* line 107, for one frame: int_frames = [frame_to_24int(f)]
Encode ==
    /\ pc = "encode"
    /\ int_frames' = <<frame_to_24int(frame)>>
    /\ pc' = "encoded"
    /\ UNCHANGED <<frame, fps, THRESHOLD_ZERO_BITS, SIMILARITY_RATIO, byteorder, N, hist,
                   redundant, base, offs, step, candidates, result, exc, last>>

NextEnc == Encode

SpecEnc == InitEnc /\ [][NextEnc]_vars

(***************************************************************************)
(* C14: frame_to_24int returns H*W values in row-major pixel order, the     *)
(* value of a pixel being red*2^16 + green*2^8 + blue: it lies in           *)
(* 0..2^24-1 and each channel can be read back from its own 8 bits.         *)
(***************************************************************************)
C14_Packing ==
    pc = "encoded" =>
        LET out == int_frames[1]
        IN  /\ Len(out) = frame.H * frame.W
            /\ \A i \in 0..(frame.H - 1) : \A j \in 0..(frame.W - 1) :
                  LET p == frame.px[i + 1][j + 1]
                      v == out[i * frame.W + j + 1]
                  IN  /\ v = p[1] * 65536 + p[2] * 256 + p[3]
                      /\ v \in 0..(Pow2(24) - 1)
                      /\ v \div 65536 = p[1]
                      /\ (v \div 256) % 256 = p[2]
                      /\ v % 256 = p[3]

C14_Witness ==
    /\ pc = "encoded"
    /\ frame.H = 2
    /\ frame.W = 2
    /\ int_frames[1] = <<0, 16777215, 660510, 0>>

(***************************************************************************)
(* C15: a comparison is with the candidate of the largest fitting ladder    *)
(* offset not yet tried in this iteration (all larger fitting offsets were  *)
(* compared with this base and missed, no smaller one was compared); when   *)
(* it matches at c, exactly base+1..c are added to redundant, base becomes  *)
(* c + 1 and the iteration is over, so that no later comparison uses a base *)
(* that already matched.                                                    *)
(***************************************************************************)
C15_FirstMatchWins ==
    [][ncmp' = ncmp + 1 =>
          LET c == Head(candidates)
          IN  /\ c - base \in Range(offs)
              /\ c < N
              /\ \A m \in matches : m[1] < base
              /\ \A o \in Range(offs) :
                    base + o < N =>
                        /\ (o > c - base => <<base, base + o>> \in misses)
                        /\ (o < c - base => <<base, base + o>> \notin (misses \cup matches))
              /\ matches' # matches =>
                    /\ matches' = matches \cup {<<base, c>>}
                    /\ redundant \subseteq redundant'
                    /\ redundant' \ redundant = (base + 1)..c
                    /\ base' = c + 1
                    /\ pc' = "while"
              /\ misses' # misses =>
                    /\ misses' = misses \cup {<<base, c>>}
                    /\ redundant' = redundant
                    /\ base' = base]_vars

C15_Witness ==
    \E m \in matches : \E p \in misses :
        /\ p[1] = m[1]
        /\ p[2] > m[2]
        /\ m[2] > m[1] + 1
        /\ redundant = (m[1] + 1)..m[2]

(***************************************************************************)
(* C16: a fallback step leaves redundant unchanged and sets base to         *)
(* min(base + 10, N - 1), whatever fps and the ladder are; after it         *)
(* base <= N - 1.                                                           *)
(***************************************************************************)
C16_FallbackStride ==
    [][nfallback' = nfallback + 1 =>
          /\ redundant' = redundant
          /\ base' = (IF base + 10 <= N - 1 THEN base + 10 ELSE N - 1)
          /\ base' <= N - 1]_vars

C16_Witness ==
    /\ pc = "while"
    /\ N = 25
    /\ int(fps) = 30
    /\ nfallback = 3
    /\ bases = {0, 10, 20}
    /\ base = 24
    /\ redundant = {}

(***************************************************************************)
(* C17: when an outer iteration starts, its candidate list is not empty,    *)
(* ends with base + 1 and holds only indices c with base < c <= N - 1; a    *)
(* comparison reads only frames of 0..N-1; the fallback is taken only after *)
(* frame base + 1 was compared with the base and found not similar.         *)
(***************************************************************************)
C17_CandidatesInRange ==
    [][/\ iters' = iters + 1 =>
             /\ candidates' # <<>>
             /\ candidates'[Len(candidates')] = base + 1
             /\ \A i \in 1..Len(candidates') :
                   base < candidates'[i] /\ candidates'[i] <= N - 1
       /\ ncmp' = ncmp + 1 =>
             /\ base \in 0..(N - 1)
             /\ Head(candidates) \in 0..(N - 1)
       /\ nfallback' = nfallback + 1 => <<base, base + 1>> \in misses]_vars

C17_Witness ==
    /\ pc = "while"
    /\ int(fps) = 30
    /\ nfallback >= 2
    /\ \E b \in bases : {p[2] : p \in {q \in misses : q[1] = b}} = {b + 15, b + 7, b + 3, b + 1}
    /\ \E b \in bases : /\ b + 7 >= N
                         /\ {p[2] : p \in {q \in misses : q[1] = b}} = {b + 3, b + 1}

(***************************************************************************)
(* C18: whenever the loop condition is evaluated (and when the scan has     *)
(* returned), 0 <= base <= N, every index of redundant is smaller than      *)
(* base, every earlier base of an iteration is smaller than base, and       *)
(* (N >= 1) base = N only after a match at candidate N - 1.                 *)
(***************************************************************************)
C18_BaseBounds ==
    pc \in {"while", "done"} =>
        /\ 0 <= base
        /\ base <= N
        /\ \A i \in redundant : i < base
        /\ \A b \in bases : b < base
        /\ Cardinality(bases) = iters
        /\ (N >= 1 /\ base = N) => \E m \in matches : m[2] = N - 1

C18_Witness ==
    /\ pc = "while"
    /\ N >= 3
    /\ base = N
    /\ iters >= 2
    /\ nfallback >= 1

(***************************************************************************)
(* C19: the returned list holds exactly the union of the ranges b+1..c of   *)
(* the matches <<b, c>>, these ranges are pairwise disjoint, and no index   *)
(* passed over by a fallback step (base+1 .. new base) is in it, even when  *)
(* that frame is similar to the base passed from.                           *)
(***************************************************************************)
FallbackBases == {b \in bases : \A m \in matches : m[1] # b}

PassedOver(b) == (b + 1)..(IF b + 10 <= N - 1 THEN b + 10 ELSE N - 1)

C19_ResultIsUnionOfMatches ==
    pc = "done" =>
        /\ Range(result) = UNION {(m[1] + 1)..m[2] : m \in matches}
        /\ \A m1 \in matches : \A m2 \in matches :
              m1 # m2 => ((m1[1] + 1)..m1[2]) \cap ((m2[1] + 1)..m2[2]) = {}
        /\ Cardinality(FallbackBases) = nfallback
        /\ \A b \in FallbackBases : PassedOver(b) \cap Range(result) = {}

C19_Witness ==
    /\ pc = "done"
    /\ matches # {}
    /\ nfallback >= 1
    /\ UniformFrames
    /\ \E b \in FallbackBases : \E i \in PassedOver(b) :
          is_similar_arr(Frame(b), Frame(i)).ret

====
